---- MODULE Spec2Model ----
(***************************************************************************)
(* Model of the soft-delete / restore cascade of the SQLite schema         *)
(* (nodes, ports, port_values, edges, tags with their AFTER UPDATE         *)
(* triggers), of the ON DELETE CASCADE foreign keys, and of the two read   *)
(* queries of the README (hierarchy query, tag query).                     *)
(*                                                                         *)
(* A row keeps the columns the triggers, the foreign keys and the queries  *)
(* read: its key, its owner reference(s) and deleted_at.  deleted_at is    *)
(* NULL (alive) or a timestamp; every timestamp is the one value TS.       *)
(***************************************************************************)
EXTENDS Integers, Sequences, FiniteSets, TLC

\* ------------------------------------------------------------------ bounds
MaxNodes == 3
MaxPorts == 2
MaxValues == 2
MaxEdges == 1
MaxTags == 1
MaxWriters == 2
MaxCalls == 2
MaxReads == 1
MaxQueryTags == 3
MaxTagWrites == 3
MaxChain == 4
MaxLevelNodes == 5

\* NULL is no id (ids start at 1) and no timestamp; TS is a timestamp.
NULL == 0
TS == NULL + 1

NodeIds == 1..MaxNodes
PortIds == 1..MaxPorts
ValueIds == 1..MaxValues
EdgeIds == 1..MaxEdges
TagKeys == {"category"}
TagValues == {"medium"}
TagIds == NodeIds \X TagKeys \X TagValues

VARIABLES db, prev, last, wr, log, base, obs

vars == <<db, prev, last, wr, log, base, obs>>

\* The variables of the one-connection run and those of the concurrent run.
seqVars == <<prev, last>>

concVars == <<wr, log, base, obs>>

\* ------------------------------------------------------- rows and helpers
IsAlive(row) == row.deleted_at = NULL

DeletedAtFor(target) == IF target THEN NULL ELSE TS

\* The rows of nodes and ports whose deleted_at differs between d and d2:
\* the row updates whose AFTER UPDATE triggers are still to run.
RowEvents(d, d2) ==
  {[tbl |-> "nodes", id |-> m, old |-> d.nodes[m].deleted_at,
    new |-> d2.nodes[m].deleted_at] :
      m \in {x \in DOMAIN d.nodes : d.nodes[x].deleted_at # d2.nodes[x].deleted_at}}
  \cup
  {[tbl |-> "ports", id |-> p, old |-> d.ports[p].deleted_at,
    new |-> d2.ports[p].deleted_at] :
      p \in {x \in DOMAIN d.ports : d.ports[x].deleted_at # d2.ports[x].deleted_at}}

\* ---------------------------------------------------------------- triggers
\* Each trigger takes the store d and the row update e = [tbl, id, old, new]
\* (OLD.deleted_at, NEW.deleted_at of the updated row) and gives the store
\* after its body UPDATE.

WhenSoftDelete(old, new) == new # NULL /\ old = NULL

\* The WHEN clause without NEW.deleted_at IS NULL.
WhenRestoreMissingNew(old, new) == old # NULL

WhenRestore(old, new) == new = NULL /\ old # NULL

cascade_soft_delete_nodes_on_nodes_delete(d, e) ==
  IF e.tbl = "nodes" /\ WhenSoftDelete(e.old, e.new)
  THEN [d EXCEPT !.nodes = [m \in DOMAIN d.nodes |->
          IF d.nodes[m].parent_id = e.id /\ d.nodes[m].deleted_at = NULL
          THEN [d.nodes[m] EXCEPT !.deleted_at = e.new] ELSE d.nodes[m]]]
  ELSE d

\* The body UPDATE without its node_id = NEW.id filter.
soft_delete_ports_any_node(d, e) ==
  IF e.tbl = "nodes" /\ WhenSoftDelete(e.old, e.new)
  THEN [d EXCEPT !.ports = [p \in DOMAIN d.ports |->
          IF d.ports[p].deleted_at = NULL
          THEN [d.ports[p] EXCEPT !.deleted_at = e.new] ELSE d.ports[p]]]
  ELSE d

cascade_soft_delete_ports_on_nodes_delete(d, e) ==
  IF e.tbl = "nodes" /\ WhenSoftDelete(e.old, e.new)
  THEN [d EXCEPT !.ports = [p \in DOMAIN d.ports |->
          IF d.ports[p].node_id = e.id /\ d.ports[p].deleted_at = NULL
          THEN [d.ports[p] EXCEPT !.deleted_at = e.new] ELSE d.ports[p]]]
  ELSE d

\* The body UPDATE without its port_id = NEW.id filter.
soft_delete_port_values_any_port(d, e) ==
  IF e.tbl = "ports" /\ WhenSoftDelete(e.old, e.new)
  THEN [d EXCEPT !.port_values = [v \in DOMAIN d.port_values |->
          IF d.port_values[v].deleted_at = NULL
          THEN [d.port_values[v] EXCEPT !.deleted_at = e.new] ELSE d.port_values[v]]]
  ELSE d

cascade_soft_delete_port_values_on_ports_delete(d, e) ==
  IF e.tbl = "ports" /\ WhenSoftDelete(e.old, e.new)
  THEN [d EXCEPT !.port_values = [v \in DOMAIN d.port_values |->
          IF d.port_values[v].port_id = e.id /\ d.port_values[v].deleted_at = NULL
          THEN [d.port_values[v] EXCEPT !.deleted_at = e.new] ELSE d.port_values[v]]]
  ELSE d

\* The body UPDATE with the filter of the restore trigger (IS NOT NULL).
soft_delete_edges_filter_not_null(d, e) ==
  IF e.tbl = "ports" /\ WhenSoftDelete(e.old, e.new)
  THEN [d EXCEPT !.edges = [x \in DOMAIN d.edges |->
          IF (d.edges[x].from_port_id = e.id \/ d.edges[x].to_port_id = e.id)
             /\ d.edges[x].deleted_at # NULL
          THEN [d.edges[x] EXCEPT !.deleted_at = e.new] ELSE d.edges[x]]]
  ELSE d

\* The body UPDATE matching from_port_id only.
soft_delete_edges_from_port_only(d, e) ==
  IF e.tbl = "ports" /\ WhenSoftDelete(e.old, e.new)
  THEN [d EXCEPT !.edges = [x \in DOMAIN d.edges |->
          IF d.edges[x].from_port_id = e.id /\ d.edges[x].deleted_at = NULL
          THEN [d.edges[x] EXCEPT !.deleted_at = e.new] ELSE d.edges[x]]]
  ELSE d

cascade_soft_delete_edges_on_ports_delete(d, e) ==
  IF e.tbl = "ports" /\ WhenSoftDelete(e.old, e.new)
  THEN [d EXCEPT !.edges = [x \in DOMAIN d.edges |->
          IF (d.edges[x].from_port_id = e.id \/ d.edges[x].to_port_id = e.id)
             /\ d.edges[x].deleted_at = NULL
          THEN [d.edges[x] EXCEPT !.deleted_at = e.new] ELSE d.edges[x]]]
  ELSE d

\* The body UPDATE with the filter of the restore trigger (IS NOT NULL).
soft_delete_tags_filter_not_null(d, e) ==
  IF e.tbl = "nodes" /\ WhenSoftDelete(e.old, e.new)
  THEN [d EXCEPT !.tags = [t \in DOMAIN d.tags |->
          IF t[1] = e.id /\ d.tags[t].deleted_at # NULL
          THEN [d.tags[t] EXCEPT !.deleted_at = e.new] ELSE d.tags[t]]]
  ELSE d

cascade_soft_delete_tags_on_nodes_delete(d, e) ==
  IF e.tbl = "nodes" /\ WhenSoftDelete(e.old, e.new)
  THEN [d EXCEPT !.tags = [t \in DOMAIN d.tags |->
          IF t[1] = e.id /\ d.tags[t].deleted_at = NULL
          THEN [d.tags[t] EXCEPT !.deleted_at = e.new] ELSE d.tags[t]]]
  ELSE d

\* The trigger with WHEN OLD.deleted_at IS NOT NULL only: it fires on every
\* update of a dead node, also on one that leaves the node dead.
restore_nodes_when_old_only(d, e) ==
  IF e.tbl = "nodes" /\ e.old # NULL
  THEN [d EXCEPT !.nodes = [m \in DOMAIN d.nodes |->
          IF d.nodes[m].parent_id = e.id /\ d.nodes[m].deleted_at # NULL
          THEN [d.nodes[m] EXCEPT !.deleted_at = NULL] ELSE d.nodes[m]]]
  ELSE d

\* The body UPDATE with the filter of the soft-delete trigger (IS NULL).
restore_nodes_filter_is_null(d, e) ==
  IF e.tbl = "nodes" /\ WhenRestore(e.old, e.new)
  THEN [d EXCEPT !.nodes = [m \in DOMAIN d.nodes |->
          IF d.nodes[m].parent_id = e.id /\ d.nodes[m].deleted_at = NULL
          THEN [d.nodes[m] EXCEPT !.deleted_at = NULL] ELSE d.nodes[m]]]
  ELSE d

cascade_restore_nodes_on_nodes_restore(d, e) ==
  IF e.tbl = "nodes" /\ WhenRestore(e.old, e.new)
  THEN [d EXCEPT !.nodes = [m \in DOMAIN d.nodes |->
          IF d.nodes[m].parent_id = e.id /\ d.nodes[m].deleted_at # NULL
          THEN [d.nodes[m] EXCEPT !.deleted_at = NULL] ELSE d.nodes[m]]]
  ELSE d

\* The body UPDATE with the filter of the soft-delete trigger (IS NULL).
restore_ports_filter_is_null(d, e) ==
  IF e.tbl = "nodes" /\ WhenRestore(e.old, e.new)
  THEN [d EXCEPT !.ports = [p \in DOMAIN d.ports |->
          IF d.ports[p].node_id = e.id /\ d.ports[p].deleted_at = NULL
          THEN [d.ports[p] EXCEPT !.deleted_at = NULL] ELSE d.ports[p]]]
  ELSE d

cascade_restore_ports_on_nodes_restore(d, e) ==
  IF e.tbl = "nodes" /\ WhenRestore(e.old, e.new)
  THEN [d EXCEPT !.ports = [p \in DOMAIN d.ports |->
          IF d.ports[p].node_id = e.id /\ d.ports[p].deleted_at # NULL
          THEN [d.ports[p] EXCEPT !.deleted_at = NULL] ELSE d.ports[p]]]
  ELSE d

cascade_restore_port_values_on_ports_restore(d, e) ==
  IF e.tbl = "ports" /\ WhenRestore(e.old, e.new)
  THEN [d EXCEPT !.port_values = [v \in DOMAIN d.port_values |->
          IF d.port_values[v].port_id = e.id /\ d.port_values[v].deleted_at # NULL
          THEN [d.port_values[v] EXCEPT !.deleted_at = NULL] ELSE d.port_values[v]]]
  ELSE d

\* AND policy: an edge is restored only when its other endpoint is alive.
restore_edges_both_endpoints(d, e) ==
  IF e.tbl = "ports" /\ WhenRestore(e.old, e.new)
  THEN [d EXCEPT !.edges = [x \in DOMAIN d.edges |->
          IF (d.edges[x].from_port_id = e.id \/ d.edges[x].to_port_id = e.id)
             /\ d.edges[x].deleted_at # NULL
             /\ \A q \in {d.edges[x].from_port_id, d.edges[x].to_port_id} \cap DOMAIN d.ports :
                   q = e.id \/ d.ports[q].deleted_at = NULL
          THEN [d.edges[x] EXCEPT !.deleted_at = NULL] ELSE d.edges[x]]]
  ELSE d

cascade_restore_edges_on_ports_restore(d, e) ==
  IF e.tbl = "ports" /\ WhenRestore(e.old, e.new)
  THEN [d EXCEPT !.edges = [x \in DOMAIN d.edges |->
          IF (d.edges[x].from_port_id = e.id \/ d.edges[x].to_port_id = e.id)
             /\ d.edges[x].deleted_at # NULL
          THEN [d.edges[x] EXCEPT !.deleted_at = NULL] ELSE d.edges[x]]]
  ELSE d

\* The body UPDATE without its node_id = NEW.id filter.
restore_tags_any_node(d, e) ==
  IF e.tbl = "nodes" /\ WhenRestore(e.old, e.new)
  THEN [d EXCEPT !.tags = [t \in DOMAIN d.tags |->
          IF d.tags[t].deleted_at # NULL
          THEN [d.tags[t] EXCEPT !.deleted_at = NULL] ELSE d.tags[t]]]
  ELSE d

cascade_restore_tags_on_nodes_restore(d, e) ==
  IF e.tbl = "nodes" /\ WhenRestore(e.old, e.new)
  THEN [d EXCEPT !.tags = [t \in DOMAIN d.tags |->
          IF t[1] = e.id /\ d.tags[t].deleted_at # NULL
          THEN [d.tags[t] EXCEPT !.deleted_at = NULL] ELSE d.tags[t]]]
  ELSE d

\* All AFTER UPDATE OF deleted_at triggers of the row update e, in the order
\* the schema creates them.
FireTriggers(d, e) ==
  LET d1 == cascade_soft_delete_nodes_on_nodes_delete(d, e)
      d2 == cascade_soft_delete_ports_on_nodes_delete(d1, e)
      d3 == cascade_soft_delete_port_values_on_ports_delete(d2, e)
      d4 == cascade_soft_delete_edges_on_ports_delete(d3, e)
      d5 == cascade_soft_delete_tags_on_nodes_delete(d4, e)
      d6 == cascade_restore_nodes_on_nodes_restore(d5, e)
      d7 == cascade_restore_ports_on_nodes_restore(d6, e)
      d8 == cascade_restore_port_values_on_ports_restore(d7, e)
      d9 == cascade_restore_edges_on_ports_restore(d8, e)
  IN  cascade_restore_tags_on_nodes_restore(d9, e)

\* recursive_triggers = ON: the rows a trigger body updates fire the triggers
\* in turn, until no row update is pending.
RECURSIVE RunTriggers(_, _)
RunTriggers(d, pending) ==
  IF pending = {} THEN d
  ELSE LET e == CHOOSE x \in pending : TRUE
           d2 == FireTriggers(d, e)
       IN  RunTriggers(d2, (pending \ {e}) \cup RowEvents(d, d2))

\* UPDATE nodes SET deleted_at = v WHERE id = n
UpdateNodeDeletedAt(d, n, v) ==
  IF n \in DOMAIN d.nodes
  THEN RunTriggers([d EXCEPT !.nodes[n].deleted_at = v],
                   {[tbl |-> "nodes", id |-> n, old |-> d.nodes[n].deleted_at, new |-> v]})
  ELSE d

\* UPDATE ports SET deleted_at = v WHERE id = p
UpdatePortDeletedAt(d, p, v) ==
  IF p \in DOMAIN d.ports
  THEN RunTriggers([d EXCEPT !.ports[p].deleted_at = v],
                   {[tbl |-> "ports", id |-> p, old |-> d.ports[p].deleted_at, new |-> v]})
  ELSE d

\* ------------------------------------------------- ON DELETE CASCADE keys
Restrict(f, keep) == [x \in keep |-> f[x]]

\* nodes.parent_id REFERENCES nodes(id) ON DELETE CASCADE: the rows that go
\* with the rows of gone.
RECURSIVE fk_nodes_parent_id(_, _)
fk_nodes_parent_id(d, gone) ==
  LET more == {m \in DOMAIN d.nodes : d.nodes[m].parent_id \in gone} \ gone
  IN  IF more = {} THEN gone ELSE fk_nodes_parent_id(d, gone \cup more)

fk_ports_node_id(d, goneNodes) ==
  {p \in DOMAIN d.ports : d.ports[p].node_id \in goneNodes}

fk_port_values_port_id(d, gonePorts) ==
  {v \in DOMAIN d.port_values : d.port_values[v].port_id \in gonePorts}

fk_edges_from_port_id(d, gonePorts) ==
  {x \in DOMAIN d.edges : d.edges[x].from_port_id \in gonePorts}

\* edges.to_port_id without ON DELETE CASCADE.
fk_edges_to_port_id_no_cascade(d, gonePorts) == {}

fk_edges_to_port_id(d, gonePorts) ==
  {x \in DOMAIN d.edges : d.edges[x].to_port_id \in gonePorts}

fk_tags_node_id(d, goneNodes) ==
  {t \in DOMAIN d.tags : t[1] \in goneNodes}

\* DELETE FROM nodes WHERE id = n, with foreign_keys = ON
DeleteNode(d, n) ==
  IF n \notin DOMAIN d.nodes THEN d
  ELSE LET gn == fk_nodes_parent_id(d, {n})
           gp == fk_ports_node_id(d, gn)
       IN  [nodes |-> Restrict(d.nodes, DOMAIN d.nodes \ gn),
            ports |-> Restrict(d.ports, DOMAIN d.ports \ gp),
            port_values |-> Restrict(d.port_values,
                              DOMAIN d.port_values \ fk_port_values_port_id(d, gp)),
            edges |-> Restrict(d.edges,
                        DOMAIN d.edges \ (fk_edges_from_port_id(d, gp)
                                          \cup fk_edges_to_port_id(d, gp))),
            tags |-> Restrict(d.tags, DOMAIN d.tags \ fk_tags_node_id(d, gn))]

\* ------------------------------------------------------------ connections
\* Writers are connections that run UPDATE nodes SET deleted_at statements;
\* one more connection reads.  A statement runs with its triggers on the
\* writer's copy of the store (work), one fired row update per step, and
\* reaches the store other connections read (db) when it completes.
Writers == 1..MaxWriters

Idle == [pc |-> "idle", id |-> NULL, target |-> TRUE, pre |-> <<>>, work |-> <<>>,
         pending |-> {}, raced |-> FALSE]

NoRead == [n |-> 0, seen |-> <<>>, before |-> <<>>, after |-> <<>>, during |-> FALSE]

\* The connection that holds the write lock, if any.
Running == {w \in Writers : wr[w].pc = "running"}

WriteLockFree == Running = {}

\* The statement of connection w has flipped some rows and not yet all.
MidCascade(w) == wr[w].pending # {} /\ wr[w].work # wr[w].pre

\* What a failed statement leaves in the store: the statement is undone.
RollbackKeepsWork(committed, w) == wr[w].work

Rollback(committed, w) == committed

\* The store a reading connection sees.
ReadViewDirty(committed) ==
  IF Running = {} THEN committed ELSE wr[CHOOSE w \in Running : TRUE].work

ReadView(committed) == committed

\* The write lock taken whether or not another connection holds it.
CanBeginUnlocked(w) == wr[w].pc = "waiting"

CanBegin(w) == wr[w].pc = "waiting" /\ WriteLockFree

\* The statements of a log that completed, run one after the other from d.
RECURSIVE Replay(_, _)
Replay(d, stmts) ==
  IF stmts = <<>> THEN d
  ELSE Replay(IF Head(stmts).err = "ok"
              THEN UpdateNodeDeletedAt(d, Head(stmts).id, DeletedAtFor(Head(stmts).target))
              ELSE d,
              Tail(stmts))

\* ------------------------------------------------------------------ queries
\* The literal of the hierarchy query: WHERE level <= 3.
QueryDepth == 3

\* The recursive SELECT with nodes_hierarchy.level in place of
\* nodes_hierarchy.level + 1.
RECURSIVE nodes_hierarchy_level_kept(_, _, _, _)
nodes_hierarchy_level_kept(d, frontier, level, D) ==
  IF frontier = {} THEN {}
  ELSE LET children == IF level <= D
                       THEN {m \in DOMAIN d.nodes : d.nodes[m].parent_id \in frontier}
                       ELSE {}
       IN  {[id |-> m, level |-> level] : m \in frontier}
           \cup nodes_hierarchy_level_kept(d, children \ frontier, level, D)

\* WITH RECURSIVE nodes_hierarchy: the rows (id, level) from the rows of
\* frontier, which are at level; a row joins its children while level <= D.
RECURSIVE nodes_hierarchy(_, _, _, _)
nodes_hierarchy(d, frontier, level, D) ==
  IF frontier = {} THEN {}
  ELSE LET children == IF level <= D
                       THEN {m \in DOMAIN d.nodes : d.nodes[m].parent_id \in frontier}
                       ELSE {}
       IN  {[id |-> m, level |-> level] : m \in frontier}
           \cup nodes_hierarchy(d, children, level + 1, D)

\* The first SELECT without FROM nodes WHERE id = root.
GetSubtreeAnyRoot(d, root, D) == nodes_hierarchy(d, {root}, 0, D)

GetSubtree(d, root, D) == nodes_hierarchy(d, {root} \cap DOMAIN d.nodes, 0, D)

\* SELECT * FROM nodes WHERE id IN (SELECT node_id FROM tags
\*                                 WHERE tag_key = k AND tag_value = v)
FindByTags(d, k, v) ==
  {[id |-> m, deleted_at |-> d.nodes[m].deleted_at, parent_id |-> d.nodes[m].parent_id] :
     m \in {x \in DOMAIN d.nodes : <<x, k, v>> \in DOMAIN d.tags}}

\* The recursive hierarchy query of the Postgres benchmark: a row joins its
\* children while nh.level < D.
RECURSIVE nodes_hierarchy_nh(_, _, _, _)
nodes_hierarchy_nh(d, frontier, level, D) ==
  IF frontier = {} THEN {}
  ELSE LET children == IF level < D
                       THEN {m \in DOMAIN d.nodes : d.nodes[m].parent_id \in frontier}
                       ELSE {}
       IN  {[id |-> m, level |-> level] : m \in frontier}
           \cup nodes_hierarchy_nh(d, children, level + 1, D)

GetSubtreePg(d, root, D) == nodes_hierarchy_nh(d, {root} \cap DOMAIN d.nodes, 0, D)

\* The tag rows of node n that match one of the ORed (tag_key, tag_value)
\* pairs of R.
MatchingTags(d, n, R) == {t \in DOMAIN d.tags : t[1] = n /\ <<t[2], t[3]>> \in R}

\* Multiple tag search: SELECT node_id FROM tags WHERE ... OR ...
\* GROUP BY node_id HAVING COUNT(DISTINCT tag_key) = the number of pairs.
multiple_tag_search(d, R) ==
  {n \in {t[1] : t \in DOMAIN d.tags} :
     /\ MatchingTags(d, n, R) # {}
     /\ Cardinality({t[2] : t \in MatchingTags(d, n, R)}) = Cardinality(R)}

\* WITH filtered_nodes AS (SELECT node_id FROM tags WHERE ... OR ...
\* GROUP BY node_id HAVING COUNT(DISTINCT (tag_key, tag_value)) = the number
\* of pairs)
filtered_nodes(d, R) ==
  {n \in {t[1] : t \in DOMAIN d.tags} :
     /\ MatchingTags(d, n, R) # {}
     /\ Cardinality({<<t[2], t[3]>> : t \in MatchingTags(d, n, R)}) = Cardinality(R)}

\* SELECT nd.*, tg.* FROM nodes nd JOIN filtered_nodes fn ON nd.id = fn.node_id
\* JOIN tags tg ON nd.id = tg.node_id WHERE tg.tag_key = k: one row for each
\* tag with key k of each filtered node.
key_only_search(d, R, k) ==
  {[id |-> t[1], tag_key |-> t[2], tag_value |-> t[3]] :
     t \in {u \in DOMAIN d.tags :
              u[1] \in filtered_nodes(d, R) \cap DOMAIN d.nodes /\ u[2] = k}}

\* ------------------------------------------------------------- populated
\* The store as populate.go leaves it: every deleted_at is NULL, parents are
\* inserted before their children.
Forests == {f \in [NodeIds -> NodeIds \cup {NULL}] :
              \A n \in NodeIds : f[n] = NULL \/ f[n] < n}

PortOwners == {f \in [PortIds -> NodeIds] :
                 \A p, q \in PortIds : p < q => f[p] <= f[q]}

\* populate.go gives every point port its own values: value v is on port
\* v, wrapping round when there are more values than ports.
ValuePorts == {[v \in ValueIds |-> ((v - 1) % MaxPorts) + 1]}

EdgeEnds == {f \in [EdgeIds -> PortIds \X PortIds] :
               \A x \in EdgeIds : f[x][1] # f[x][2]}

TagSets == {s \in SUBSET TagIds : Cardinality(s) = MaxTags}

Populated(par, own, vp, ed, tg) ==
  [nodes |-> [n \in NodeIds |-> [parent_id |-> par[n], deleted_at |-> NULL]],
   ports |-> [p \in PortIds |-> [node_id |-> own[p], deleted_at |-> NULL]],
   port_values |-> [v \in ValueIds |-> [port_id |-> vp[v], deleted_at |-> NULL]],
   edges |-> [x \in EdgeIds |-> [from_port_id |-> ed[x][1], to_port_id |-> ed[x][2],
                                 deleted_at |-> NULL]],
   tags |-> [t \in tg |-> [deleted_at |-> NULL]]]

\* What the caller of the last statement saw: the statement, its result, and
\* how it relates to the statement just before it.
NoOp == [op |-> "none", id |-> NULL, target |-> TRUE, follows |-> "none", err |-> "ok"]

\* The last call was a SetAlive that changed the alive flag of its node.
LastFlipped ==
  /\ last.op = "SetAlive"
  /\ last.err = "ok"
  /\ last.id \in DOMAIN prev.nodes
  /\ IsAlive(prev.nodes[last.id]) # last.target

\* "same": the call repeats the SetAlive just before it; "undo": it is the
\* opposite SetAlive on the node the call just before it flipped.
Follows(id, target) ==
  IF last.op = "SetAlive" /\ last.err = "ok" /\ last.id = id
  THEN (IF last.target = target THEN "same"
        ELSE IF LastFlipped THEN "undo" ELSE "none")
  ELSE "none"

Init ==
  /\ \E par \in Forests, own \in PortOwners, vp \in ValuePorts,
        ed \in EdgeEnds, tg \in TagSets :
       db = Populated(par, own, vp, ed, tg)
  /\ prev = db
  /\ last = NoOp
  /\ wr = [w \in Writers |-> Idle]
  /\ log = <<>>
  /\ base = db
  /\ obs = NoRead

\* -------------------------------------------------------------- operations
SetAlive(n, target) ==
  /\ db' = UpdateNodeDeletedAt(db, n, DeletedAtFor(target))
  /\ prev' = db
  /\ last' = [op |-> "SetAlive", id |-> n, target |-> target,
              follows |-> Follows(n, target), err |-> "ok"]
  /\ UNCHANGED concVars

SetPortAlive(p, target) ==
  /\ db' = UpdatePortDeletedAt(db, p, DeletedAtFor(target))
  /\ prev' = db
  /\ last' = [op |-> "SetPortAlive", id |-> p, target |-> target,
              follows |-> "none", err |-> "ok"]
  /\ UNCHANGED concVars

HardDelete(n) ==
  /\ db' = DeleteNode(db, n)
  /\ prev' = db
  /\ last' = [op |-> "HardDelete", id |-> n, target |-> FALSE,
              follows |-> "none", err |-> "ok"]
  /\ UNCHANGED concVars

Next ==
  \/ \E n \in NodeIds, target \in BOOLEAN : SetAlive(n, target)
  \/ \E p \in PortIds, target \in BOOLEAN : SetPortAlive(p, target)
  \/ \E n \in NodeIds : HardDelete(n)

Spec == Init /\ [][Next]_vars

\* ---------------------------------------------------- concurrent operations
\* The rows of both read queries, as one reading connection gets them.
ReadRows(d, root, k, v) ==
  [tree |-> GetSubtree(d, root, QueryDepth), tagged |-> FindByTags(d, k, v)]

\* The stores of the concurrent run: populated with port 1 on node 1, the
\* last port on the last node, every edge from port 1 to the last port and
\* every node tagged, then at most one node soft-deleted by an earlier
\* statement.
InitConc ==
  /\ \E par \in Forests, n0 \in NodeIds \cup {NULL} :
       LET pop == Populated(par, [p \in PortIds |-> IF p = 1 THEN 1 ELSE MaxNodes],
                            CHOOSE vp \in ValuePorts : TRUE,
                            [x \in EdgeIds |-> <<1, MaxPorts>>], TagIds)
       IN  db = IF n0 = NULL THEN pop ELSE UpdateNodeDeletedAt(pop, n0, TS)
  /\ prev = db
  /\ last = NoOp
  /\ wr = [w \in Writers |-> Idle]
  /\ log = <<>>
  /\ base = db
  /\ obs = NoRead

\* The calls made so far: those that returned and those still in progress.
Calls == Len(log) + Cardinality({w \in Writers : wr[w].pc # "idle"})

\* What the caller of a returned call saw.
Returned(w, err) ==
  [id |-> wr[w].id, target |-> wr[w].target, raced |-> wr[w].raced, err |-> err,
   mid |-> wr[w].pc = "running" /\ MidCascade(w)]

\* A caller invokes SetAlive(n, target) on connection w.
Invoke(w, n, target) ==
  /\ wr[w].pc = "idle"
  /\ Calls < MaxCalls
  /\ wr' = [wr EXCEPT ![w] = [Idle EXCEPT !.pc = "waiting", !.id = n, !.target = target]]
  /\ UNCHANGED <<db, log, base, obs, seqVars>>

\* The statement starts: the write lock, and the UPDATE of the node's row.
Begin(w) ==
  /\ CanBegin(w)
  /\ LET n == wr[w].id
         v == DeletedAtFor(wr[w].target)
     IN  wr' = [wr EXCEPT ![w] =
                  [@ EXCEPT !.pc = "running", !.pre = db,
                            !.work = IF n \in DOMAIN db.nodes
                                     THEN [db EXCEPT !.nodes[n].deleted_at = v] ELSE db,
                            !.pending = IF n \in DOMAIN db.nodes
                                        THEN {[tbl |-> "nodes", id |-> n,
                                               old |-> db.nodes[n].deleted_at, new |-> v]}
                                        ELSE {}]]
  /\ UNCHANGED <<db, log, base, obs, seqVars>>

\* The store is locked by another connection's statement: the call fails with
\* a retryable error and writes nothing.
Busy(w) ==
  /\ wr[w].pc = "waiting"
  /\ ~WriteLockFree
  /\ log' = Append(log, Returned(w, "busy"))
  /\ wr' = [wr EXCEPT ![w] = Idle]
  /\ UNCHANGED <<db, base, obs, seqVars>>

\* One fired row update runs its triggers.
Step(w) ==
  /\ wr[w].pc = "running"
  /\ \E e \in wr[w].pending :
       LET d2 == FireTriggers(wr[w].work, e)
       IN  wr' = [wr EXCEPT ![w].work = d2,
                            ![w].pending = (wr[w].pending \ {e}) \cup RowEvents(wr[w].work, d2)]
  /\ UNCHANGED <<db, log, base, obs, seqVars>>

\* The statement completes: its writes reach the store.
Commit(w) ==
  /\ wr[w].pc = "running"
  /\ wr[w].pending = {}
  /\ db' = wr[w].work
  /\ log' = Append(log, Returned(w, "ok"))
  /\ wr' = [x \in Writers |->
              IF x = w THEN Idle
              ELSE IF wr[x].pc # "idle" THEN [wr[x] EXCEPT !.raced = TRUE] ELSE wr[x]]
  /\ UNCHANGED <<base, obs, seqVars>>

\* A storage failure or a cancellation at any point of the running statement.
Fail(w) ==
  /\ wr[w].pc = "running"
  /\ db' = Rollback(db, w)
  /\ log' = Append(log, Returned(w, "failed"))
  /\ wr' = [wr EXCEPT ![w] = Idle]
  /\ UNCHANGED <<base, obs, seqVars>>

\* The reading connection runs both queries; before and after are their rows
\* on the store as it was when the running statement began and as the
\* statement leaves it when run alone.
Read(root, k, v) ==
  /\ obs.n < MaxReads
  /\ LET ws == Running
         w == CHOOSE x \in ws : TRUE
         d0 == IF ws = {} THEN db ELSE wr[w].pre
         d1 == IF ws = {} THEN db
               ELSE UpdateNodeDeletedAt(d0, wr[w].id, DeletedAtFor(wr[w].target))
     IN  obs' = [n |-> obs.n + 1,
                 seen |-> ReadRows(ReadView(db), root, k, v),
                 before |-> ReadRows(d0, root, k, v),
                 after |-> ReadRows(d1, root, k, v),
                 during |-> (ws # {} /\ MidCascade(w))]
  /\ UNCHANGED <<db, wr, log, base, seqVars>>

NextConc ==
  \/ \E w \in Writers, n \in NodeIds, target \in BOOLEAN : Invoke(w, n, target)
  \/ \E w \in Writers : Begin(w)
  \/ \E w \in Writers : Busy(w)
  \/ \E w \in Writers : Step(w)
  \/ \E w \in Writers : Commit(w)
  \/ \E w \in Writers : Fail(w)
  \/ \E root \in NodeIds, k \in TagKeys, v \in TagValues : Read(root, k, v)

SpecConc == InitConc /\ [][NextConc]_vars

\* -------------------------------------------------------------------- writes
\* The store right after the schema is created: five empty tables.
EmptyStore ==
  [nodes |-> <<>>, ports |-> <<>>, port_values |-> <<>>, edges |-> <<>>, tags |-> <<>>]

\* REFERENCES t(id) with foreign_keys = ON: the key names a row of t.
NamesRowUnchecked(key, rows) == TRUE

NamesRow(key, rows) == key \in DOMAIN rows

\* A nullable REFERENCES column: the key is NULL or names a row.
References(key, rows) == key = NULL \/ NamesRow(key, rows)

\* The row that INSERT adds to a table: deleted_at is NULL by default.
WithRow(rows, id, row) == [x \in DOMAIN rows \cup {id} |-> IF x = id THEN row ELSE rows[x]]

\* What the caller of a write statement saw: whether a constraint failed.
Wrote(ok) == [NoOp EXCEPT !.err = IF ok THEN "ok" ELSE "constraint"]

\* INSERT INTO nodes (id, parent_id): the primary key is new and parent_id
\* is NULL or names a node, which the row itself may be.
InsertNode(n, p) ==
  LET ok == n \notin DOMAIN db.nodes /\ (References(p, db.nodes) \/ p = n)
  IN  /\ db' = IF ok
               THEN [db EXCEPT !.nodes = WithRow(@, n, [parent_id |-> p, deleted_at |-> NULL])]
               ELSE db
      /\ prev' = prev
      /\ last' = Wrote(ok)
      /\ UNCHANGED concVars

\* UPDATE nodes SET parent_id = p WHERE id = n
SetParent(n, p) ==
  LET ok == References(p, db.nodes)
  IN  /\ db' = IF ok /\ n \in DOMAIN db.nodes
               THEN [db EXCEPT !.nodes[n].parent_id = p]
               ELSE db
      /\ prev' = prev
      /\ last' = Wrote(ok \/ n \notin DOMAIN db.nodes)
      /\ UNCHANGED concVars

\* INSERT INTO ports (id, node_id)
InsertPort(p, n) ==
  LET ok == p \notin DOMAIN db.ports /\ NamesRow(n, db.nodes)
  IN  /\ db' = IF ok
               THEN [db EXCEPT !.ports = WithRow(@, p, [node_id |-> n, deleted_at |-> NULL])]
               ELSE db
      /\ prev' = prev
      /\ last' = Wrote(ok)
      /\ UNCHANGED concVars

\* INSERT INTO port_values (id, port_id)
InsertPortValue(v, p) ==
  LET ok == v \notin DOMAIN db.port_values /\ NamesRow(p, db.ports)
  IN  /\ db' = IF ok
               THEN [db EXCEPT !.port_values =
                       WithRow(@, v, [port_id |-> p, deleted_at |-> NULL])]
               ELSE db
      /\ prev' = prev
      /\ last' = Wrote(ok)
      /\ UNCHANGED concVars

\* INSERT INTO edges (id, from_port_id, to_port_id)
InsertEdge(x, f, t) ==
  LET ok == x \notin DOMAIN db.edges /\ NamesRow(f, db.ports) /\ NamesRow(t, db.ports)
  IN  /\ db' = IF ok
               THEN [db EXCEPT !.edges =
                       WithRow(@, x, [from_port_id |-> f, to_port_id |-> t,
                                      deleted_at |-> NULL])]
               ELSE db
      /\ prev' = prev
      /\ last' = Wrote(ok)
      /\ UNCHANGED concVars

\* The statement with PRIMARY KEY (node_id, tag_key): a row with the same
\* node and key is a conflict, whatever its value.
tagStmtKeyOnly(d, n, k, v) ==
  IF NamesRow(n, d.nodes) /\ ~\E u \in DOMAIN d.tags : u[1] = n /\ u[2] = k
  THEN [d EXCEPT !.tags = WithRow(@, <<n, k, v>>, [deleted_at |-> NULL])]
  ELSE d

\* INSERT OR IGNORE INTO tags (node_id, tag_key, tag_value) with PRIMARY KEY
\* (node_id, tag_key, tag_value): a row with the same primary key is left as
\* it is; a node_id that names no node adds no row.
tagStmt(d, n, k, v) ==
  IF NamesRow(n, d.nodes) /\ <<n, k, v>> \notin DOMAIN d.tags
  THEN [d EXCEPT !.tags = WithRow(@, <<n, k, v>>, [deleted_at |-> NULL])]
  ELSE d

\* The statement run on the store: a conflict on the primary key is not an
\* error, a node_id that names no node is.
InsertTag(n, k, v) ==
  LET ok == NamesRow(n, db.nodes)
  IN  /\ db' = tagStmt(db, n, k, v)
      /\ prev' = prev
      /\ last' = Wrote(ok)
      /\ UNCHANGED concVars

\* UPDATE nodes SET deleted_at WHERE id = n, with its triggers.
UpdateNodes(n, target) ==
  /\ db' = UpdateNodeDeletedAt(db, n, DeletedAtFor(target))
  /\ prev' = prev
  /\ last' = Wrote(TRUE)
  /\ UNCHANGED concVars

\* DELETE FROM nodes WHERE id = n
DeleteFromNodes(n) ==
  /\ db' = DeleteNode(db, n)
  /\ prev' = prev
  /\ last' = Wrote(TRUE)
  /\ UNCHANGED concVars

InitWrites ==
  /\ db = EmptyStore
  /\ prev = db
  /\ last = NoOp
  /\ wr = [w \in Writers |-> Idle]
  /\ log = <<>>
  /\ base = db
  /\ obs = NoRead

\* Port 1 is on node 1 and the last port on the last node, every edge runs
\* from port 1 to the last port, and the tags are on the last node.
NextWrites ==
  \/ \E n \in NodeIds, p \in NodeIds \cup {NULL} : InsertNode(n, p)
  \/ \E n \in NodeIds, p \in NodeIds \cup {NULL} : SetParent(n, p)
  \/ \E p \in PortIds : InsertPort(p, IF p = 1 THEN 1 ELSE MaxNodes)
  \/ \E v \in ValueIds, vp \in ValuePorts : InsertPortValue(v, vp[v])
  \/ \E x \in EdgeIds : InsertEdge(x, 1, MaxPorts)
  \/ \E k \in TagKeys, v \in TagValues : InsertTag(MaxNodes, k, v)
  \/ \E n \in NodeIds, target \in BOOLEAN : UpdateNodes(n, target)
  \/ \E n \in NodeIds : DeleteFromNodes(n)

SpecWrites == InitWrites /\ [][NextWrites]_vars

\* ------------------------------------------------------------------- reads
\* The keys and values of the tags the queried stores carry, and the pairs a
\* query can ask for.
QueryKeys == {"category", "priority"}

QueryValues == {"medium", "high"}

QueryPairs == QueryKeys \X QueryValues

\* Tags are on the first and on the last node.
QueryTagSets ==
  {s \in SUBSET ({1, MaxNodes} \X QueryKeys \X QueryValues) : Cardinality(s) = MaxQueryTags}

\* An id that names no node.
NoSuchNode == MaxNodes + 1

\* A search without a key-only predicate.
NoKey == ""

\* No query has run yet.
NoQuery == [op |-> "none", root |-> NULL, depth |-> 0, required |-> {}, key |-> NoKey,
            rows |-> {}, ids |-> {}, err |-> "ok"]

InitQuery ==
  /\ \E par \in Forests, tg \in QueryTagSets :
       db = Populated(par, [p \in PortIds |-> IF p = 1 THEN 1 ELSE MaxNodes],
                      CHOOSE vp \in ValuePorts : TRUE,
                      [x \in EdgeIds |-> <<1, MaxPorts>>], tg)
  /\ prev = db
  /\ last = NoOp
  /\ wr = [w \in Writers |-> Idle]
  /\ log = <<>>
  /\ base = db
  /\ obs = NoQuery

\* The hierarchy query of the SQLite README for root and depth D: the SQL has
\* no check of D and no error of its own.
GetSubtreeCall(root, D) ==
  /\ obs' = [NoQuery EXCEPT !.op = "GetSubtree", !.root = root, !.depth = D,
                            !.rows = GetSubtree(db, root, D),
                            !.ids = {r.id : r \in GetSubtree(db, root, D)}]
  /\ UNCHANGED <<db, wr, log, base, seqVars>>

\* The hierarchy query of the Postgres benchmark.
GetSubtreePgCall(root, D) ==
  /\ obs' = [NoQuery EXCEPT !.op = "GetSubtreePg", !.root = root, !.depth = D,
                            !.rows = GetSubtreePg(db, root, D),
                            !.ids = {r.id : r \in GetSubtreePg(db, root, D)}]
  /\ UNCHANGED <<db, wr, log, base, seqVars>>

\* The tag search for the required pairs R: the multiple tag search, or, with
\* a key-only predicate k, the search that applies k to the filtered nodes.
\* The SQL has no check of R and no error of its own; with no pair, no tag
\* row matches the WHERE clause.
FindByTagsCall(R, k) ==
  /\ obs' = [NoQuery EXCEPT !.op = "FindByTags", !.required = R, !.key = k,
                            !.rows = IF k = NoKey THEN multiple_tag_search(db, R)
                                     ELSE key_only_search(db, R, k),
                            !.ids = IF k = NoKey THEN multiple_tag_search(db, R)
                                    ELSE {r.id : r \in key_only_search(db, R, k)}]
  /\ UNCHANGED <<db, wr, log, base, seqVars>>

\* Soft deletes and restores, then one query on the store they left.
NextQuery ==
  \/ \E n \in NodeIds, target \in BOOLEAN : obs = NoQuery /\ UpdateNodes(n, target)
  \/ \E root \in NodeIds \cup {NoSuchNode}, D \in -1..QueryDepth :
       obs = NoQuery /\ GetSubtreeCall(root, D)
  \/ \E root \in NodeIds \cup {NoSuchNode}, D \in -1..QueryDepth :
       obs = NoQuery /\ GetSubtreePgCall(root, D)
  \/ \E R \in {S \in SUBSET QueryPairs : Cardinality(S) \in 0..2},
        k \in QueryKeys \cup {NoKey} : obs = NoQuery /\ FindByTagsCall(R, k)

SpecQuery == InitQuery /\ [][NextQuery]_vars

\* ------------------------------------------------------------ rows in order
\* The rows of the hierarchy query in the order the engine returns them: the
\* recursive SELECT runs on one row of the queue at a time, first in first
\* out, and adds the rows it joins at the end of the queue; a row joins its
\* children while level <= D.  scan is the order in which the join finds the
\* rows of nodes.
RECURSIVE nodes_hierarchy_rows(_, _, _, _)
nodes_hierarchy_rows(d, queue, D, scan) ==
  IF queue = <<>> THEN <<>>
  ELSE LET r == Head(queue)
           IsChild(m) == m \in DOMAIN d.nodes /\ d.nodes[m].parent_id = r.id
           joined == IF r.level <= D THEN SelectSeq(scan, IsChild) ELSE <<>>
           new == [i \in 1..Len(joined) |-> [id |-> joined[i], level |-> r.level + 1]]
       IN  <<r>> \o nodes_hierarchy_rows(d, Tail(queue) \o new, D, scan)

GetSubtreeRows(d, root, D, scan) ==
  nodes_hierarchy_rows(d, IF root \in DOMAIN d.nodes
                          THEN <<[id |-> root, level |-> 0]>> ELSE <<>>, D, scan)

\* The orders in which a scan can find the rows of nodes.
Scans == {q \in [1..MaxNodes -> NodeIds] : \A i, j \in 1..MaxNodes : i # j => q[i] # q[j]}

\* The parent links the schema accepts: parent_id is NULL or the id of a node,
\* which can be the node itself or one of its descendants.
ParentLinks == [NodeIds -> NodeIds \cup {NULL}]

\* A store with these parent links, as INSERT INTO nodes and UPDATE nodes SET
\* parent_id can leave it.
InitRows ==
  /\ \E par \in ParentLinks :
       db = Populated(par, [p \in PortIds |-> IF p = 1 THEN 1 ELSE MaxNodes],
                      CHOOSE vp \in ValuePorts : TRUE,
                      [x \in EdgeIds |-> <<1, MaxPorts>>], {})
  /\ prev = db
  /\ last = NoOp
  /\ wr = [w \in Writers |-> Idle]
  /\ log = <<>>
  /\ base = db
  /\ obs = NoQuery

GetSubtreeRowsCall(root, D, scan) ==
  /\ obs' = [NoQuery EXCEPT !.op = "GetSubtreeRows", !.root = root, !.depth = D,
                            !.rows = GetSubtreeRows(db, root, D, scan),
                            !.ids = {r.id : r \in GetSubtree(db, root, D)}]
  /\ UNCHANGED <<db, wr, log, base, seqVars>>

\* Soft deletes and restores, then one query on the store they left.
NextRows ==
  \/ \E n \in NodeIds, target \in BOOLEAN : obs = NoQuery /\ UpdateNodes(n, target)
  \/ \E root \in NodeIds \cup {NoSuchNode}, D \in 0..QueryDepth, scan \in Scans :
       obs = NoQuery /\ GetSubtreeRowsCall(root, D, scan)

SpecRows == InitRows /\ [][NextRows]_vars

\* --------------------------------------------------------- level by level
\* The CTEs of the level-by-level hierarchy query of the Postgres benchmark,
\* as rows (id, level).  level_0 is the CTE the query names base:
\* SELECT ..., 0 AS level FROM nodes WHERE id = root.
level_0(d, root) == {[id |-> m, level |-> 0] : m \in {root} \cap DOMAIN d.nodes}

\* SELECT ..., 1 AS level FROM nodes n WHERE parent_id IN (SELECT id FROM base)
level_1(d, root) ==
  {[id |-> m, level |-> 1] :
     m \in {x \in DOMAIN d.nodes : d.nodes[x].parent_id \in {r.id : r \in level_0(d, root)}}}

\* SELECT ..., 2 AS level FROM nodes n WHERE parent_id IN (SELECT id FROM level_1)
level_2(d, root) ==
  {[id |-> m, level |-> 2] :
     m \in {x \in DOMAIN d.nodes : d.nodes[x].parent_id \in {r.id : r \in level_1(d, root)}}}

\* level_3 with level_1 in place of level_2 in its subquery.
level_3_from_level_1(d, root) ==
  {[id |-> m, level |-> 3] :
     m \in {x \in DOMAIN d.nodes : d.nodes[x].parent_id \in {r.id : r \in level_1(d, root)}}}

\* SELECT ..., 3 AS level FROM nodes n WHERE parent_id IN (SELECT id FROM level_2)
level_3(d, root) ==
  {[id |-> m, level |-> 3] :
     m \in {x \in DOMAIN d.nodes : d.nodes[x].parent_id \in {r.id : r \in level_2(d, root)}}}

\* SELECT * FROM base UNION ALL SELECT * FROM level_1 UNION ALL
\* SELECT * FROM level_2 UNION ALL SELECT * FROM level_3
LevelByLevel(d, root) ==
  level_0(d, root) \cup level_1(d, root) \cup level_2(d, root) \cup level_3(d, root)

LevelIds == 1..MaxLevelNodes

\* An id that no node has.
NoLevelNode == MaxLevelNodes + 1

\* The parent links the schema accepts among the nodes of LevelIds.
LevelLinks == [LevelIds -> LevelIds \cup {NULL}]

\* A store of the nodes of LevelIds with parent links par, with port 1 on the
\* first node, the other ports on the last node, every edge from port 1 to
\* the last port, and no tags.
LevelStore(par) ==
  [nodes |-> [n \in LevelIds |-> [parent_id |-> par[n], deleted_at |-> NULL]],
   ports |-> [p \in PortIds |-> [node_id |-> IF p = 1 THEN 1 ELSE MaxLevelNodes,
                                 deleted_at |-> NULL]],
   port_values |-> [v \in ValueIds |-> [port_id |-> ((v - 1) % MaxPorts) + 1,
                                        deleted_at |-> NULL]],
   edges |-> [x \in EdgeIds |-> [from_port_id |-> 1, to_port_id |-> MaxPorts,
                                 deleted_at |-> NULL]],
   tags |-> [t \in {} |-> [deleted_at |-> NULL]]]

InitLevels ==
  /\ \E par \in LevelLinks : db = LevelStore(par)
  /\ prev = db
  /\ last = NoOp
  /\ wr = [w \in Writers |-> Idle]
  /\ log = <<>>
  /\ base = db
  /\ obs = NoQuery

\* The level-by-level hierarchy query for root.
LevelByLevelCall(root) ==
  /\ obs' = [NoQuery EXCEPT !.op = "LevelByLevel", !.root = root, !.depth = QueryDepth,
                            !.rows = LevelByLevel(db, root),
                            !.ids = {r.id : r \in LevelByLevel(db, root)}]
  /\ UNCHANGED <<db, wr, log, base, seqVars>>

\* One of the two hierarchy queries of the benchmark on the store, with the
\* literal of the README as depth.
NextLevels ==
  \/ \E root \in LevelIds \cup {NoLevelNode} : obs = NoQuery /\ LevelByLevelCall(root)
  \/ \E root \in LevelIds \cup {NoLevelNode} :
       obs = NoQuery /\ GetSubtreePgCall(root, QueryDepth)

SpecLevels == InitLevels /\ [][NextLevels]_vars

\* ---------------------------------------------------------------- tag writes
\* The store when populate.go has inserted the nodes and no tag yet.
InitTags ==
  /\ \E par \in Forests :
       db = Populated(par, [p \in PortIds |-> IF p = 1 THEN 1 ELSE MaxNodes],
                      CHOOSE vp \in ValuePorts : TRUE,
                      [x \in EdgeIds |-> <<1, MaxPorts>>], {})
  /\ prev = db
  /\ last = NoOp
  /\ wr = [w \in Writers |-> Idle]
  /\ log = <<>>
  /\ base = db
  /\ obs = NoRead

\* tagStmt.Exec(n, k, v): the log keeps the tag of every Exec and what the
\* statement returned.
TagWrite(n, k, v) ==
  /\ Len(log) < MaxTagWrites
  /\ db' = tagStmt(db, n, k, v)
  /\ log' = Append(log, [id |-> <<n, k, v>>,
                         err |-> IF NamesRow(n, db.nodes) THEN "ok" ELSE "constraint"])
  /\ UNCHANGED <<wr, base, obs, seqVars>>

\* Tag writes on the first node and on an id that names no node, between
\* soft deletes and restores of the first node.
NextTags ==
  \/ \E n \in {1, NoSuchNode}, k \in QueryKeys, v \in QueryValues : TagWrite(n, k, v)
  \/ \E target \in BOOLEAN : UpdateNodes(1, target)

SpecTags == InitTags /\ [][NextTags]_vars

\* ------------------------------------------------------------- deep chains
\* A store whose nodes form one chain (node n is the child of node n - 1),
\* with port 1 on the first node, the other ports on the last node, every
\* edge from port 1 to the last port, and the tags on the last node.
ChainIds == 1..MaxChain

ChainStore ==
  [nodes |-> [n \in ChainIds |-> [parent_id |-> n - 1, deleted_at |-> NULL]],
   ports |-> [p \in PortIds |-> [node_id |-> IF p = 1 THEN 1 ELSE MaxChain,
                                 deleted_at |-> NULL]],
   port_values |-> [v \in ValueIds |-> [port_id |-> ((v - 1) % MaxPorts) + 1,
                                        deleted_at |-> NULL]],
   edges |-> [x \in EdgeIds |-> [from_port_id |-> 1, to_port_id |-> MaxPorts,
                                 deleted_at |-> NULL]],
   tags |-> [t \in {MaxChain} \X TagKeys \X TagValues |-> [deleted_at |-> NULL]]]

\* In this run base is the store before the call before the last one, as
\* prev is the store before the last call.
InitChain ==
  /\ db = ChainStore
  /\ prev = db
  /\ last = NoOp
  /\ wr = [w \in Writers |-> Idle]
  /\ log = <<>>
  /\ base = db
  /\ obs = NoRead

ChainSetAlive(n, target) ==
  /\ db' = UpdateNodeDeletedAt(db, n, DeletedAtFor(target))
  /\ prev' = db
  /\ base' = prev
  /\ last' = [op |-> "SetAlive", id |-> n, target |-> target,
              follows |-> Follows(n, target), err |-> "ok"]
  /\ UNCHANGED <<wr, log, obs>>

ChainSetPortAlive(p, target) ==
  /\ db' = UpdatePortDeletedAt(db, p, DeletedAtFor(target))
  /\ prev' = db
  /\ base' = prev
  /\ last' = [op |-> "SetPortAlive", id |-> p, target |-> target,
              follows |-> "none", err |-> "ok"]
  /\ UNCHANGED <<wr, log, obs>>

NextChain ==
  \/ \E n \in ChainIds, target \in BOOLEAN : ChainSetAlive(n, target)
  \/ \E p \in PortIds, target \in BOOLEAN : ChainSetPortAlive(p, target)

SpecChain == InitChain /\ [][NextChain]_vars

TypeOK ==
  /\ DOMAIN db.nodes \subseteq NodeIds \cup ChainIds \cup LevelIds
  /\ DOMAIN db.ports \subseteq PortIds
  /\ last.op \in {"none", "SetAlive", "SetPortAlive", "HardDelete", "InsertNode",
                "SetParent", "InsertPort", "InsertPortValue", "InsertEdge", "InsertTag"}

\* ------------------------------------------------------ ownership, for claims
\* The nodes of the subtree of n in d: n and its descendants.
RECURSIVE SubtreeFrom(_, _)
SubtreeFrom(d, ns) ==
  LET more == {m \in DOMAIN d.nodes : d.nodes[m].parent_id \in ns} \ ns
  IN  IF more = {} THEN ns ELSE SubtreeFrom(d, ns \cup more)

SubtreeNodes(d, n) == SubtreeFrom(d, {n} \cap DOMAIN d.nodes)

Descendants(d, n) == SubtreeNodes(d, n) \ {n}

PortsOf(d, ns) == {p \in DOMAIN d.ports : d.ports[p].node_id \in ns}

ValuesOf(d, ps) == {v \in DOMAIN d.port_values : d.port_values[v].port_id \in ps}

EdgesAt(d, ps) ==
  {x \in DOMAIN d.edges : d.edges[x].from_port_id \in ps \/ d.edges[x].to_port_id \in ps}

TagsOf(d, ns) == {t \in DOMAIN d.tags : t[1] \in ns}

\* Every record owned by the subtree of n has alive = target.
SubtreeAllAt(d, n, target) ==
  LET ns == SubtreeNodes(d, n)
      ps == PortsOf(d, ns)
  IN  /\ \A m \in ns : IsAlive(d.nodes[m]) = target
      /\ \A p \in ps : IsAlive(d.ports[p]) = target
      /\ \A v \in ValuesOf(d, ps) : IsAlive(d.port_values[v]) = target
      /\ \A x \in EdgesAt(d, ps) : IsAlive(d.edges[x]) = target
      /\ \A t \in TagsOf(d, ns) : IsAlive(d.tags[t]) = target

\* The nodes of the subtree of n that n is joined to by a chain of nodes
\* which all differ from target in d: n, and the children of every such node
\* that differs from target.
RECURSIVE ChainFrom(_, _, _)
ChainFrom(d, ns, target) ==
  LET more == {m \in DOMAIN d.nodes :
                 /\ d.nodes[m].parent_id \in ns
                 /\ IsAlive(d.nodes[d.nodes[m].parent_id]) # target} \ ns
  IN  IF more = {} THEN ns ELSE ChainFrom(d, ns \cup more, target)

\* The nodes and ports of the chain that themselves differ from target in d:
\* the owners the cascade passes through.
ChainOwners(d, n, target) ==
  {m \in ChainFrom(d, {n}, target) : IsAlive(d.nodes[m]) # target}

ChainPorts(d, n, target) ==
  {p \in PortsOf(d, ChainOwners(d, n, target)) : IsAlive(d.ports[p]) # target}

\* ------------------------------------------------------------------ claims

\* C1 as claimed: after SetAlive(N, target) on a node whose alive flag differed
\* from target, every record owned by the subtree of N (nodes, ports, values,
\* edges at those ports, tags) has alive = target, whatever it was before.
C1_SubtreeAllAtTarget ==
  LastFlipped => SubtreeAllAt(db, last.id, last.target)

\* C1 amended: after SetAlive(N, target) on a node whose alive flag differed
\* from target, N has alive = target and so has every record that N is joined
\* to by owners which all differed from target before the call: the children,
\* ports and tags of every node of the chain that differed, and the values and
\* edges of every such port that differed.
C1_ChainAtTarget ==
  LastFlipped =>
    LET t == last.target
        owners == ChainOwners(prev, last.id, t)
        ps == ChainPorts(prev, last.id, t)
    IN  /\ IsAlive(db.nodes[last.id]) = t
        /\ \A m \in ChainFrom(prev, {last.id}, t) : IsAlive(db.nodes[m]) = t
        /\ \A p \in PortsOf(prev, owners) : IsAlive(db.ports[p]) = t
        /\ \A g \in TagsOf(prev, owners) : IsAlive(db.tags[g]) = t
        /\ \A v \in ValuesOf(prev, ps) : IsAlive(db.port_values[v]) = t
        /\ \A x \in EdgesAt(prev, ps) : IsAlive(db.edges[x]) = t

\* A soft delete that went two levels down and took a value, a tag and an
\* edge with it.
C1_Witness ==
  /\ LastFlipped
  /\ ~last.target
  /\ \E m \in Descendants(db, last.id) :
       /\ db.nodes[m].parent_id # last.id
       /\ IsAlive(prev.nodes[m]) /\ ~IsAlive(db.nodes[m])
  /\ \E v \in DOMAIN db.port_values : IsAlive(prev.port_values[v]) /\ ~IsAlive(db.port_values[v])
  /\ \E g \in DOMAIN db.tags : IsAlive(prev.tags[g]) /\ ~IsAlive(db.tags[g])
  /\ \E x \in DOMAIN db.edges : IsAlive(prev.edges[x]) /\ ~IsAlive(db.edges[x])

\* C2: a SetAlive that repeats the SetAlive just before it (same node, same
\* target) changes no record and returns no error.
C2_Idempotent ==
  [][(/\ last.op = "SetAlive" /\ last.err = "ok"
      /\ last'.op = "SetAlive" /\ last'.id = last.id /\ last'.target = last.target)
     => (db' = db /\ last'.err = "ok")]_vars

\* The second of two soft deletes of a node whose first one flipped the node
\* and a child of it.
C2_Witness ==
  /\ last.op = "SetAlive" /\ last.follows = "same" /\ ~last.target
  /\ last.id \in DOMAIN db.nodes
  /\ prev = db
  /\ \E m \in DOMAIN db.nodes : db.nodes[m].parent_id = last.id /\ ~IsAlive(db.nodes[m])

\* The step that restores the node the call just before it soft-deleted.
RoundTripStep ==
  /\ LastFlipped /\ ~last.target
  /\ last'.op = "SetAlive" /\ last'.id = last.id /\ last'.target

\* C3 as claimed: SetAlive(N, false) then SetAlive(N, true) on an alive N leaves
\* alive exactly the descendants of N that were alive before the delete.
C3_RoundTripExact ==
  [][RoundTripStep =>
       \A m \in Descendants(prev, last.id) :
         IsAlive(db'.nodes[m]) <=> IsAlive(prev.nodes[m])]_vars

\* C3 amended: SetAlive(N, false) then SetAlive(N, true) on an alive N leaves
\* alive every descendant of N that was alive before the delete (a descendant
\* that was dead before the delete may be alive afterwards).
C3_RoundTripRestores ==
  [][RoundTripStep =>
       \A m \in Descendants(prev, last.id) :
         IsAlive(prev.nodes[m]) => IsAlive(db'.nodes[m])]_vars

\* A restore right after the soft delete of the same node, which revived a
\* grandchild.
C3_Witness ==
  /\ last.op = "SetAlive" /\ last.target /\ last.follows = "undo"
  /\ \E m \in Descendants(db, last.id) :
       /\ db.nodes[m].parent_id # last.id
       /\ ~IsAlive(prev.nodes[m]) /\ IsAlive(db.nodes[m])

\* The rows GetSubtree(root, D) is to return: the nodes of the subtree at most
\* D parent links below root, each with that number of links.
RECURSIVE LinksUp(_, _, _)
LinksUp(d, root, m) == IF m = root THEN 0 ELSE 1 + LinksUp(d, root, d.nodes[m].parent_id)

SubtreeRows(d, root, D) ==
  {r \in {[id |-> m, level |-> LinksUp(d, root, m)] : m \in SubtreeNodes(d, root)} :
     r.level <= D}

AllNodesAndTagsAlive(d, n) ==
  /\ \A m \in SubtreeNodes(d, n) : IsAlive(d.nodes[m])
  /\ \A g \in TagsOf(d, SubtreeNodes(d, n)) : IsAlive(d.tags[g])

\* C4: for a subtree of A with every node and tag alive, after SetAlive(A, false)
\* GetSubtree(A, D) is empty and FindByTags returns no node of the subtree;
\* after a following SetAlive(A, true) GetSubtree(A, D) returns every node of
\* the subtree within depth D at its depth and FindByTags returns the subtree
\* nodes carrying the tag.
C4_CascadeVisible ==
  [][/\ (/\ last'.op = "SetAlive" /\ ~last'.target /\ prev' = db
         /\ last'.id \in DOMAIN db.nodes
         /\ AllNodesAndTagsAlive(db, last'.id))
        => (/\ \A D \in 0..QueryDepth : GetSubtree(db', last'.id, D) = {}
            /\ \A k \in TagKeys, v \in TagValues :
                 \A r \in FindByTags(db', k, v) : r.id \notin SubtreeNodes(db, last'.id))
     /\ (/\ RoundTripStep
         /\ AllNodesAndTagsAlive(prev, last.id))
        => (/\ \A D \in 0..QueryDepth :
                 SubtreeRows(db', last.id, D) \subseteq GetSubtree(db', last.id, D)
            /\ \A k \in TagKeys, v \in TagValues :
                 {r.id : r \in FindByTags(db', k, v)} \cap SubtreeNodes(db, last.id)
                   = {m \in SubtreeNodes(db, last.id) : <<m, k, v>> \in DOMAIN db.tags})
    ]_vars

Disjoint(d, a, b) == SubtreeNodes(d, a) \cap SubtreeNodes(d, b) = {}

\* An edge has one end on a port of the subtree of a and the other on a port
\* of the subtree of b.
Joined(d, a, b) ==
  \E x \in DOMAIN d.edges :
    LET f == d.ports[d.edges[x].from_port_id].node_id
        t == d.ports[d.edges[x].to_port_id].node_id
    IN  \/ f \in SubtreeNodes(d, a) /\ t \in SubtreeNodes(d, b)
        \/ f \in SubtreeNodes(d, b) /\ t \in SubtreeNodes(d, a)

\* The last two calls both completed and were in progress at the same time,
\* and no call is in progress now.
RacedPair ==
  /\ Len(log) >= 2
  /\ \A w \in Writers : wr[w].pc = "idle"
  /\ log[Len(log) - 1].err = "ok"
  /\ log[Len(log)].err = "ok"
  /\ log[Len(log)].raced

\* The store after the calls before the last two, and after the last two run
\* in the order they completed and in the other order.
BeforePair == Replay(base, SubSeq(log, 1, Len(log) - 2))

InOrder == Replay(BeforePair, <<log[Len(log) - 1], log[Len(log)]>>)

Swapped == Replay(BeforePair, <<log[Len(log)], log[Len(log) - 1]>>)

C8_PortDeleteFrame ==
  (/\ last.op = "SetPortAlive" /\ ~last.target
   /\ last.id \in DOMAIN prev.ports
   /\ IsAlive(prev.ports[last.id]))
  => /\ ~IsAlive(db.ports[last.id])
     /\ \A v \in ValuesOf(db, {last.id}) : ~IsAlive(db.port_values[v])
     /\ \A x \in EdgesAt(db, {last.id}) : ~IsAlive(db.edges[x])
     /\ \A q \in DOMAIN db.ports \ {last.id} : db.ports[q] = prev.ports[q]
     /\ \A v \in DOMAIN db.port_values \ ValuesOf(db, {last.id}) :
          db.port_values[v] = prev.port_values[v]
     /\ db.nodes = prev.nodes
     /\ db.tags = prev.tags

\* A soft delete of a port that took a value and an edge, on a node with an
\* alive sibling port that has an alive value.
C8_Witness ==
  /\ last.op = "SetPortAlive" /\ ~last.target
  /\ last.id \in DOMAIN prev.ports /\ IsAlive(prev.ports[last.id])
  /\ \E v \in ValuesOf(db, {last.id}) : IsAlive(prev.port_values[v])
  /\ \E x \in EdgesAt(db, {last.id}) : IsAlive(prev.edges[x])
  /\ \E q \in DOMAIN db.ports \ {last.id} :
       /\ db.ports[q].node_id = db.ports[last.id].node_id
       /\ IsAlive(db.ports[q])
       /\ \E v \in ValuesOf(db, {q}) : IsAlive(db.port_values[v])

\* The edges with exactly one endpoint owned by node n.
EdgesWithOneEndAt(d, n) ==
  {x \in DOMAIN d.edges :
     (d.ports[d.edges[x].from_port_id].node_id = n)
       # (d.ports[d.edges[x].to_port_id].node_id = n)}

EndAt(d, x, n) ==
  IF d.ports[d.edges[x].from_port_id].node_id = n
  THEN d.edges[x].from_port_id ELSE d.edges[x].to_port_id

\* C9 as claimed: soft-deleting the node that owns one endpoint of an alive
\* edge makes the edge dead, and restoring the node that owns one endpoint of
\* a dead edge makes the edge alive, whatever the other endpoint is.
C9_EdgeFollowsNode ==
  LastFlipped =>
    \A x \in EdgesWithOneEndAt(prev, last.id) :
      IsAlive(prev.edges[x]) # last.target => IsAlive(db.edges[x]) = last.target

\* C9 amended: an edge gets the target of a cascade whenever the cascade flips
\* one of its endpoint ports, whatever the other endpoint is: soft-deleting
\* (restoring) the node that owns one endpoint of an edge makes the edge dead
\* (alive) when that endpoint port was alive (dead) before the call.
C9_EdgeFollowsFlippedPort ==
  LastFlipped =>
    \A x \in EdgesWithOneEndAt(prev, last.id) :
      IsAlive(prev.ports[EndAt(prev, x, last.id)]) # last.target
        => IsAlive(db.edges[x]) = last.target

\* A restore of the node owning one endpoint of a dead edge made the edge alive
\* while the other endpoint port is dead.
C9_Witness ==
  /\ LastFlipped /\ last.target
  /\ \E x \in EdgesWithOneEndAt(prev, last.id) :
       /\ ~IsAlive(prev.edges[x]) /\ IsAlive(db.edges[x])
       /\ \E q \in {db.edges[x].from_port_id, db.edges[x].to_port_id} :
            ~IsAlive(db.ports[q])

\* C10: a hard delete of N removes N, its descendants, their ports, the values
\* of those ports, the edges at those ports and the tags of those nodes,
\* whatever their alive flags; no SetAlive afterwards brings a record back.
C10_HardDeleteCascades ==
  [][/\ (last'.op = "HardDelete" /\ prev' = db /\ last'.id \in DOMAIN db.nodes)
        => LET ns == SubtreeNodes(db, last'.id)
               ps == PortsOf(db, ns)
           IN  /\ DOMAIN db'.nodes \cap ns = {}
               /\ DOMAIN db'.ports \cap ps = {}
               /\ DOMAIN db'.port_values \cap ValuesOf(db, ps) = {}
               /\ DOMAIN db'.edges \cap EdgesAt(db, ps) = {}
               /\ DOMAIN db'.tags \cap TagsOf(db, ns) = {}
     /\ (last'.op \in {"SetAlive", "SetPortAlive"} /\ prev' = db)
        => /\ DOMAIN db'.nodes = DOMAIN db.nodes
           /\ DOMAIN db'.ports = DOMAIN db.ports
           /\ DOMAIN db'.port_values = DOMAIN db.port_values
           /\ DOMAIN db'.edges = DOMAIN db.edges
           /\ DOMAIN db'.tags = DOMAIN db.tags
    ]_vars

\* A hard delete that removed a dead descendant, a value, a tag and an edge
\* whose other endpoint port is outside the subtree and stays.
C10_Witness ==
  /\ last.op = "HardDelete"
  /\ last.id \in DOMAIN prev.nodes
  /\ \E m \in Descendants(prev, last.id) : ~IsAlive(prev.nodes[m])
  /\ DOMAIN db.port_values # DOMAIN prev.port_values
  /\ DOMAIN db.tags # DOMAIN prev.tags
  /\ \E x \in DOMAIN prev.edges \ DOMAIN db.edges :
       \E q \in {prev.edges[x].from_port_id, prev.edges[x].to_port_id} :
         q \in DOMAIN db.ports

\* Every port names a node, every value a port, every edge two ports and
\* every tag a node of store d.
RefIntegrity(d) ==
  /\ \A p \in DOMAIN d.ports : d.ports[p].node_id \in DOMAIN d.nodes
  /\ \A v \in DOMAIN d.port_values : d.port_values[v].port_id \in DOMAIN d.ports
  /\ \A x \in DOMAIN d.edges :
       /\ d.edges[x].from_port_id \in DOMAIN d.ports
       /\ d.edges[x].to_port_id \in DOMAIN d.ports
  /\ \A t \in DOMAIN d.tags : t[1] \in DOMAIN d.nodes

RECURSIVE Up(_, _, _)
Up(d, m, k) ==
  IF k = 0 \/ m \notin DOMAIN d.nodes \/ d.nodes[m].parent_id = NULL THEN {}
  ELSE {d.nodes[m].parent_id} \cup Up(d, d.nodes[m].parent_id, k - 1)

\* No node of store d is its own ancestor.
IsForest(d) == \A n \in DOMAIN d.nodes : n \notin Up(d, n, Cardinality(DOMAIN d.nodes))

\* C12: the parent_id links form a forest in every reachable state: a write
\* that would make a node its own ancestor (an insert with a parent_id, its
\* own id included, or a change of parent_id) is rejected and leaves the store
\* as it was.
C12_ParentLinksFormForest == IsForest(db)

\* The last query was a hierarchy query, of the SQLite README or of the
\* Postgres benchmark.
HierarchyQueried == obs.op \in {"GetSubtree", "GetSubtreePg"}

\* C13: GetSubtree(N, 0) returns the one row N at level 0 when N exists and is
\* alive, and no row otherwise; it never returns a child of N.
C13_DepthZeroIsRoot ==
  (obs.op = "GetSubtree" /\ obs.depth = 0)
  => obs.rows = IF obs.root \in DOMAIN db.nodes /\ IsAlive(db.nodes[obs.root])
                THEN {[id |-> obs.root, level |-> 0]}
                ELSE {}

\* C14: for every root N and every D >= 0, no row of GetSubtree(N, D) has a
\* level greater than D.
C14_DepthBound ==
  (HierarchyQueried /\ obs.depth >= 0) => \A r \in obs.rows : r.level <= obs.depth

\* C15: in every state reached by soft deletes and restores, GetSubtree(N, D)
\* returns no dead node, neither the root nor a descendant.
C15_AliveOnly ==
  obs.op = "GetSubtree" => \A r \in obs.rows : IsAlive(db.nodes[r.id])

\* C16: for an existing root N and D >= 0, GetSubtree(N, D) returns every alive
\* descendant of N at most D parent links below N, and labels every row with
\* the number of parent links between its node and N (N itself at level 0).
C16_CompleteAndLabelled ==
  (HierarchyQueried /\ obs.depth >= 0 /\ obs.root \in DOMAIN db.nodes)
  => /\ \A m \in SubtreeNodes(db, obs.root) :
          (IsAlive(db.nodes[m]) /\ LinksUp(db, obs.root, m) <= obs.depth)
          => [id |-> m, level |-> LinksUp(db, obs.root, m)] \in obs.rows
     /\ \A r \in obs.rows :
          /\ r.id \in SubtreeNodes(db, obs.root)
          /\ r.level = LinksUp(db, obs.root, r.id)

\* A query of depth 2 returned an alive node two links below its root from a
\* store that holds a dead node.
C16_Witness ==
  /\ HierarchyQueried
  /\ obs.depth = 2
  /\ \E r \in obs.rows : r.level = 2 /\ IsAlive(db.nodes[r.id])
  /\ \E m \in DOMAIN db.nodes : ~IsAlive(db.nodes[m])

\* C17: GetSubtree with a root id that names no node returns no row and no
\* error, for every D >= 0, and writes nothing.
C17_UnknownRootIsEmpty ==
  [][(/\ obs' # obs
      /\ obs'.op \in {"GetSubtree", "GetSubtreePg"}
      /\ obs'.root \notin DOMAIN db.nodes
      /\ obs'.depth >= 0)
     => (obs'.rows = {} /\ obs'.err = "ok" /\ db' = db)
    ]_vars

\* A hierarchy query of depth at least 1 ran on an id that names no node, in a
\* store that has nodes, some of them soft-deleted.
C17_Witness ==
  /\ HierarchyQueried
  /\ obs.root \notin DOMAIN db.nodes
  /\ obs.depth >= 1
  /\ \E m \in DOMAIN db.nodes : ~IsAlive(db.nodes[m])

\* C18: GetSubtree(N, D) with D < 0 fails with InvalidArgument and returns no
\* row, for every N, existing or not.
C18_NegativeDepthFails ==
  (HierarchyQueried /\ obs.depth < 0) => (obs.err = "InvalidArgument" /\ obs.rows = {})

\* Node n of store d has an alive tag (k, v).
AliveTagged(d, n, k, v) == <<n, k, v>> \in DOMAIN d.tags /\ IsAlive(d.tags[<<n, k, v>>])

\* The nodes of store d that have an alive tag for every pair of R.
AliveTaggedAll(d, R) ==
  {n \in DOMAIN d.nodes : \A p \in R : AliveTagged(d, n, p[1], p[2])}

\* C19: FindByTags with the required pairs (k1, v1) and (k2, v2) and no
\* key-only predicate returns exactly the nodes that have an alive tag
\* (k1, v1) and an alive tag (k2, v2), for all keys and values (the two pairs
\* may share their key) and in every state reached by soft deletes and
\* restores.
C19_ExactIntersection ==
  (obs.op = "FindByTags" /\ obs.key = NoKey /\ Cardinality(obs.required) = 2)
  => obs.ids = AliveTaggedAll(db, obs.required)

\* C20: FindByTags with the required pairs R and the key-only predicate k
\* returns exactly the nodes that match every pair of R and carry at least one
\* alive tag with key k.
C20_KeyOnlyNarrows ==
  (obs.op = "FindByTags" /\ obs.key # NoKey /\ obs.required # {})
  => obs.ids = {n \in AliveTaggedAll(db, obs.required) :
                  \E t \in DOMAIN db.tags :
                    t[1] = n /\ t[2] = obs.key /\ IsAlive(db.tags[t])}

\* C21: FindByTags returns a set of node ids: no node id appears in more than
\* one row of its result, with or without a key-only predicate, also when a
\* matching node carries several tags with the key of the predicate.
C21_ResultIsSet ==
  obs.op = "FindByTags" => Cardinality(obs.rows) = Cardinality(obs.ids)

\* C22: FindByTags called with no required pair fails with InvalidArgument and
\* returns no node id.
C22_EmptyPredicatesFail ==
  (obs.op = "FindByTags" /\ obs.required = {})
  => (obs.err = "InvalidArgument" /\ obs.ids = {})

\* C23: SetAlive(id, target) with an id that names no node fails with NotFound
\* and changes no record.
C23_AbsentNodeFails ==
  (last.op = "SetAlive" /\ last.id \notin DOMAIN prev.nodes)
  => (last.err = "NotFound" /\ db = prev)

\* The tags whose write returned without an error.
TagsWritten == {log[i].id : i \in {j \in DOMAIN log : log[j].err = "ok"}}

\* C24: writing a tag (node_id, key, value) that already exists is not an
\* error and leaves one row for that triple: after any sequence of tag writes
\* the store holds exactly one row for each triple written, and tags of the
\* same node with the same key and different values are distinct rows.
C24_TagIdentity ==
  /\ \A i \in DOMAIN log : NamesRow(log[i].id[1], db.nodes) => log[i].err = "ok"
  /\ DOMAIN db.tags = TagsWritten

\* The same tag was written twice, and a tag of the same node and key with
\* another value once.
C24_Witness ==
  /\ \E i, j \in DOMAIN log : i < j /\ log[i].id = log[j].id /\ log[j].err = "ok"
  /\ \E t, u \in DOMAIN db.tags : t[1] = u[1] /\ t[2] = u[2] /\ t[3] # u[3]

\* Node g of store d and the records it owns itself (its ports, their values,
\* the edges at them, its tags) are alive.
OwnAlive(d, g) ==
  LET ps == PortsOf(d, {g})
  IN  /\ IsAlive(d.nodes[g])
      /\ \A p \in ps : IsAlive(d.ports[p])
      /\ \A v \in ValuesOf(d, ps) : IsAlive(d.port_values[v])
      /\ \A x \in EdgesAt(d, ps) : IsAlive(d.edges[x])
      /\ \A t \in TagsOf(d, {g}) : IsAlive(d.tags[t])

\* The last two calls were SetAlive(N, false) on an alive N and SetAlive(N, true):
\* base is the store before the delete, prev the store between the two, db
\* the store after the restore.
RoundTrip ==
  /\ last.op = "SetAlive" /\ last.target /\ last.follows = "undo"
  /\ last.id \in DOMAIN base.nodes /\ IsAlive(base.nodes[last.id])

\* The nodes of d between n and its descendant g.
Between(d, n, g) == {m \in Descendants(d, n) : g \in Descendants(d, m)}

\* C25 as claimed: a descendant G of N that was dead before SetAlive(N, false)
\* while N was alive is alive after the SetAlive(N, true) that follows, with
\* its ports, values, incident edges and tags.
C25_RestoreRevivesDead ==
  RoundTrip =>
    \A g \in Descendants(base, last.id) :
      ~IsAlive(base.nodes[g]) => OwnAlive(db, g)

\* C25 amended: such a G is alive after the restore, with its ports, values
\* and tags and with the incident edges of its ports that were dead before
\* the restore, when no node between N and G was alive after the delete.
C25_RestoreRevivesDeadChain ==
  RoundTrip =>
    \A g \in Descendants(base, last.id) :
      (/\ ~IsAlive(base.nodes[g])
       /\ \A m \in Between(prev, last.id, g) : ~IsAlive(prev.nodes[m]))
      => LET ps == PortsOf(db, {g})
         IN  /\ IsAlive(db.nodes[g])
             /\ \A p \in ps : IsAlive(db.ports[p])
             /\ \A v \in ValuesOf(db, ps) : IsAlive(db.port_values[v])
             /\ \A t \in TagsOf(db, {g}) : IsAlive(db.tags[t])
             /\ \A x \in EdgesAt(db, {p \in ps : ~IsAlive(prev.ports[p])}) :
                  IsAlive(db.edges[x])

\* A round trip that revived a node three levels down which was dead before
\* the delete, with a port, a value, an edge and a tag of it.
C25_Witness ==
  /\ RoundTrip
  /\ \E g \in Descendants(base, last.id) :
       /\ Cardinality(Between(base, last.id, g)) >= 2
       /\ ~IsAlive(base.nodes[g]) /\ IsAlive(db.nodes[g])
       /\ \E p \in PortsOf(db, {g}) :
            /\ ~IsAlive(prev.ports[p]) /\ IsAlive(db.ports[p])
            /\ ValuesOf(db, {p}) # {} /\ EdgesAt(db, {p}) # {}
       /\ TagsOf(db, {g}) # {}

\* The children of n in store d whose alive flag is target.
ChildrenAt(d, n, target) ==
  {c \in DOMAIN d.nodes : d.nodes[c].parent_id = n /\ IsAlive(d.nodes[c]) = target}

\* The nodes, ports, values and tags of the subtree of c are the same rows in
\* d and d2.
SubtreeSame(d, d2, c) ==
  LET ns == SubtreeNodes(d, c)
      ps == PortsOf(d, ns)
  IN  /\ \A m \in ns : m \in DOMAIN d2.nodes /\ d2.nodes[m] = d.nodes[m]
      /\ \A p \in ps : p \in DOMAIN d2.ports /\ d2.ports[p] = d.ports[p]
      /\ \A v \in ValuesOf(d, ps) :
           v \in DOMAIN d2.port_values /\ d2.port_values[v] = d.port_values[v]
      /\ \A t \in TagsOf(d, ns) : t \in DOMAIN d2.tags /\ d2.tags[t] = d.tags[t]

\* C26: when SetAlive(N, target) runs and a child C of N already has
\* alive = target, the call changes no node, port, value or tag of the subtree
\* of C, also when some of them have alive different from target.
C26_SkipsChildrenAtTarget ==
  (last.op = "SetAlive" /\ last.id \in DOMAIN prev.nodes)
  => \A c \in ChildrenAt(prev, last.id, last.target) : SubtreeSame(prev, db, c)

\* A SetAlive that flipped its node and left a child that was at the target,
\* whose own child and a port below it differ from the target.
C26_Witness ==
  /\ LastFlipped
  /\ \E c \in ChildrenAt(prev, last.id, last.target) :
       /\ \E m \in Descendants(prev, c) : IsAlive(db.nodes[m]) # last.target
       /\ \E p \in PortsOf(prev, SubtreeNodes(prev, c)) : IsAlive(db.ports[p]) # last.target

\* Deadness is closed under ownership in store d: no alive node has a dead
\* parent, no alive port or tag belongs to a dead node, no alive value belongs
\* to a dead port.
Closed(d) ==
  /\ \A n \in DOMAIN d.nodes :
       (IsAlive(d.nodes[n]) /\ d.nodes[n].parent_id \in DOMAIN d.nodes)
       => IsAlive(d.nodes[d.nodes[n].parent_id])
  /\ \A p \in DOMAIN d.ports : IsAlive(d.ports[p]) => IsAlive(d.nodes[d.ports[p].node_id])
  /\ \A t \in DOMAIN d.tags : IsAlive(d.tags[t]) => IsAlive(d.nodes[t[1]])
  /\ \A v \in DOMAIN d.port_values :
       IsAlive(d.port_values[v]) => IsAlive(d.ports[d.port_values[v].port_id])

\* The last call was a restore of a record whose owner was dead: of a node
\* under a dead parent, or of a port of a dead node.
RestoredUnderDead ==
  /\ last.target
  /\ \/ /\ last.op = "SetAlive"
        /\ last.id \in DOMAIN prev.nodes
        /\ prev.nodes[last.id].parent_id \in DOMAIN prev.nodes
        /\ ~IsAlive(prev.nodes[prev.nodes[last.id].parent_id])
     \/ /\ last.op = "SetPortAlive"
        /\ last.id \in DOMAIN prev.ports
        /\ ~IsAlive(prev.nodes[prev.ports[last.id].node_id])

\* C27 as claimed: in every state reached from an all-alive store by SetAlive
\* calls on nodes and soft deletes and restores of ports, no alive node has a
\* dead parent, no alive port or tag belongs to a dead node and no alive value
\* belongs to a dead port.
C27_DeadnessClosed == Closed(db)

\* C27 amended: deadness stays closed under ownership as long as no node is
\* restored under a dead parent and no port on a dead node: a call that is not
\* such a restore, made on a store where deadness is closed, leaves it closed
\* (and it is closed in the all-alive store).
C27_DeadnessClosedUnlessRestoredUnderDead ==
  /\ (last.op = "none" => Closed(db))
  /\ (Closed(prev) /\ ~RestoredUnderDead) => Closed(db)

\* A restore of a node with an alive parent that revived a child, a port, a
\* value and a tag, while another node stays dead.
C27_Witness ==
  /\ LastFlipped /\ last.target /\ ~RestoredUnderDead
  /\ Closed(prev)
  /\ prev.nodes[last.id].parent_id \in DOMAIN prev.nodes
  /\ \E m \in Descendants(prev, last.id) : ~IsAlive(prev.nodes[m]) /\ IsAlive(db.nodes[m])
  /\ \E p \in DOMAIN prev.ports : ~IsAlive(prev.ports[p]) /\ IsAlive(db.ports[p])
  /\ \E v \in DOMAIN prev.port_values :
       ~IsAlive(prev.port_values[v]) /\ IsAlive(db.port_values[v])
  /\ \E t \in DOMAIN prev.tags : ~IsAlive(prev.tags[t]) /\ IsAlive(db.tags[t])

\* The ports of edge x of store d that are alive.
AlivePorts(d, x) ==
  {p \in {d.edges[x].from_port_id, d.edges[x].to_port_id} : IsAlive(d.ports[p])}

\* C28 as claimed: in every state reached from an all-alive store by soft
\* deletes and restores of nodes, every alive edge has both its from-port and
\* its to-port alive.
C28_AliveEdgeBothPortsAlive ==
  \A x \in DOMAIN db.edges :
    IsAlive(db.edges[x])
    => AlivePorts(db, x) = {db.edges[x].from_port_id, db.edges[x].to_port_id}

\* C28 amended: in every such state every alive edge has its from-port or its
\* to-port alive.
C28_AliveEdgeSomePortAlive ==
  \A x \in DOMAIN db.edges : IsAlive(db.edges[x]) => AlivePorts(db, x) # {}

\* An alive edge between a dead port and an alive port of two soft-deleted
\* and restored nodes.
C28_Witness ==
  \E x \in DOMAIN db.edges :
    /\ IsAlive(db.edges[x])
    /\ Cardinality(AlivePorts(db, x)) = 1
    /\ db.edges[x].from_port_id # db.edges[x].to_port_id

\* Table rows2 has the rows of table rows, the same but for deleted_at.
SameButAlive(rows, rows2) ==
  /\ DOMAIN rows2 = DOMAIN rows
  /\ \A k \in DOMAIN rows : [rows2[k] EXCEPT !.deleted_at = rows[k].deleted_at] = rows[k]

\* C29: SetAlive(N, target) creates and removes no record and changes no field
\* but the alive flag; it leaves the alive flag of every node, port, value and
\* tag outside the subtree of N (ancestors and siblings of N among them) as it
\* was, and changes outside the subtree only edges with a port inside it.
C29_CascadeFrame ==
  last.op = "SetAlive" =>
    LET ns == SubtreeNodes(prev, last.id)
        ps == PortsOf(prev, ns)
    IN  /\ SameButAlive(prev.nodes, db.nodes)
        /\ SameButAlive(prev.ports, db.ports)
        /\ SameButAlive(prev.port_values, db.port_values)
        /\ SameButAlive(prev.edges, db.edges)
        /\ SameButAlive(prev.tags, db.tags)
        /\ \A m \in DOMAIN prev.nodes \ ns : db.nodes[m] = prev.nodes[m]
        /\ \A p \in DOMAIN prev.ports \ ps : db.ports[p] = prev.ports[p]
        /\ \A v \in DOMAIN prev.port_values \ ValuesOf(prev, ps) :
             db.port_values[v] = prev.port_values[v]
        /\ \A t \in DOMAIN prev.tags \ TagsOf(prev, ns) : db.tags[t] = prev.tags[t]
        /\ \A x \in DOMAIN prev.edges \ EdgesAt(prev, ps) : db.edges[x] = prev.edges[x]

\* A SetAlive on a node with a parent that flipped the node and an edge to a
\* port outside its subtree, while a node, a port and a tag outside the
\* subtree differ from the target.
C29_Witness ==
  /\ LastFlipped
  /\ prev.nodes[last.id].parent_id \in DOMAIN prev.nodes
  /\ LET ns == SubtreeNodes(prev, last.id)
         ps == PortsOf(prev, ns)
     IN  /\ \E m \in DOMAIN db.nodes \ ns : IsAlive(db.nodes[m]) # last.target
         /\ \E p \in DOMAIN db.ports \ ps : IsAlive(db.ports[p]) # last.target
         /\ \E t \in DOMAIN db.tags \ TagsOf(prev, ns) : IsAlive(db.tags[t]) # last.target
         /\ \E x \in EdgesAt(prev, ps) :
              /\ db.edges[x] # prev.edges[x]
              /\ {prev.edges[x].from_port_id, prev.edges[x].to_port_id} \ ps # {}

\* The rows of table rows whose alive flag differs from target.
NotAt(rows, target) == {k \in DOMAIN rows : IsAlive(rows[k]) # target}

\* What the statement of connection w has still to do at most: two for every
\* node and port that differs from its target, one for every pending row
\* update.
CascadeLeft(w) ==
  2 * (Cardinality(NotAt(wr[w].work.nodes, wr[w].target))
       + Cardinality(NotAt(wr[w].work.ports, wr[w].target)))
  + Cardinality(wr[w].pending)

\* Between stores d and d2 a row of table tbl either stays as it is or goes
\* from differing from target to target.
OnlyTowards(rows, rows2, target) ==
  /\ DOMAIN rows2 = DOMAIN rows
  /\ \A k \in DOMAIN rows :
       rows2[k] = rows[k] \/ (IsAlive(rows[k]) # target /\ IsAlive(rows2[k]) = target)

\* C30: a single SetAlive invocation terminates, and it flips the alive flag
\* of each node, port, value, edge and tag at most once: every step of the
\* cascade leaves less to do, and it changes a record only from differing from
\* the target to the target, so a record set to the target is never flipped
\* back or changed again.
C30_TerminatesFlippingOnce ==
  [][\A w \in Writers :
       (wr[w].pc = "running" /\ wr'[w].pc = "running" /\ wr'[w] # wr[w])
       => /\ CascadeLeft(w)' < CascadeLeft(w)
          /\ OnlyTowards(wr[w].work.nodes, wr'[w].work.nodes, wr[w].target)
          /\ OnlyTowards(wr[w].work.ports, wr'[w].work.ports, wr[w].target)
          /\ OnlyTowards(wr[w].work.port_values, wr'[w].work.port_values, wr[w].target)
          /\ OnlyTowards(wr[w].work.edges, wr'[w].work.edges, wr[w].target)
          /\ OnlyTowards(wr[w].work.tags, wr'[w].work.tags, wr[w].target)]_vars

\* A statement that has run all its triggers and flipped a node two levels
\* down, a port, a value, an edge and a tag.
C30_Witness ==
  \E w \in Writers :
    /\ wr[w].pc = "running" /\ wr[w].pending = {}
    /\ \E m \in Descendants(wr[w].pre, wr[w].id) :
         /\ wr[w].pre.nodes[m].parent_id # wr[w].id
         /\ wr[w].work.nodes[m] # wr[w].pre.nodes[m]
    /\ wr[w].work.ports # wr[w].pre.ports
    /\ wr[w].work.port_values # wr[w].pre.port_values
    /\ wr[w].work.edges # wr[w].pre.edges
    /\ wr[w].work.tags # wr[w].pre.tags

\* C31: GetSubtree returns its rows ordered by level: the level never
\* decreases from one row to the next, and each node id appears at most once.
C31_OrderedByLevelOnce ==
  obs.op = "GetSubtreeRows" =>
    /\ \A i \in 1..(Len(obs.rows) - 1) : obs.rows[i].level <= obs.rows[i + 1].level
    /\ \A i, j \in 1..Len(obs.rows) : obs.rows[i].id = obs.rows[j].id => i = j

\* C32: on every store whose parent links form a forest, and for every root,
\* the level-by-level expansion (base, level_1, level_2, level_3 unioned)
\* returns exactly the set of (id, level) rows of the recursive hierarchy
\* query bounded by nh.level < 3.
C32_LevelByLevelSameRows ==
  (obs.op = "LevelByLevel" /\ IsForest(db)) =>
    obs.rows = GetSubtreePg(db, obs.root, QueryDepth)

\* The expansion ran on a forest where a node lies three links below the root
\* and has a child, which neither query returns.
C32_Witness ==
  /\ obs.op = "LevelByLevel"
  /\ IsForest(db)
  /\ \E r \in obs.rows :
       /\ r.level = QueryDepth
       /\ \E m \in DOMAIN db.nodes : db.nodes[m].parent_id = r.id /\ m \notin obs.ids
  /\ obs.rows = GetSubtreePg(db, obs.root, QueryDepth)

====
